---- MODULE Spec2Model ----
(***************************************************************************)
(* Employee registration form (src/src/components/register.tsx).           *)
(*                                                                         *)
(* Strings whose characters the code inspects (name, id, address, pincode, *)
(* district names) are sequences of one-character strings; the empty      *)
(* string is << >>.  State names are only compared for equality and used  *)
(* as keys, so they are plain strings with "" the empty one.               *)
(***************************************************************************)
EXTENDS Integers, Sequences, FiniteSets, Bags, TLC

-----------------------------------------------------------------------------
(* Bounds of the model *)

\* most records one session of the page is allowed to append
MaxStore == 1
\* most postal lookups in flight plus delayed district assignments pending
MaxPending == 1
\* longest candidate list / longest name explored for the district matcher
MaxCandidates == 2
MaxNameLen == 2

-----------------------------------------------------------------------------
(* Character classes and string helpers (JavaScript String methods) *)

Digits == {"0", "1", "2", "3", "4", "5", "6", "7", "8", "9"}
UpperLetters == {"A", "B", "G", "U", "Z", "M", "R"}
LowerLetters == {"a", "b", "d", "u", "l", "x"}
Whitespace == {" "}

\* String.prototype.toLowerCase on one character
LowerChar(c) ==
  CASE c = "A" -> "a"
    [] c = "B" -> "b"
    [] c = "G" -> "g"
    [] c = "U" -> "u"
    [] c = "Z" -> "z"
    [] c = "M" -> "m"
    [] c = "R" -> "r"
    [] OTHER -> c

\* String.prototype.toLowerCase
toLowerCase(s) == [i \in 1..Len(s) |-> LowerChar(s[i])]

\* String.prototype.includes: t occurs in s as a contiguous substring
includes(s, t) ==
  \E i \in 0..(Len(s) - Len(t)) : SubSeq(s, i + 1, i + Len(t)) = t

\* String.prototype.startsWith
startsWith(s, t) == Len(s) >= Len(t) /\ SubSeq(s, 1, Len(t)) = t

\* String.prototype.slice(from) and slice(0, n)
sliceFrom(s, from) == SubSeq(s, from + 1, Len(s))
sliceTo(s, n) == SubSeq(s, 1, IF Len(s) < n THEN Len(s) ELSE n)

\* replace(/\D/g, ""): drop every character that is not a digit
RECURSIVE stripNonDigits(_)
stripNonDigits(s) ==
  IF s = << >> THEN << >>
  ELSE (IF Head(s) \in Digits THEN <<Head(s)>> ELSE << >>) \o stripNonDigits(Tail(s))

Range(s) == {s[i] : i \in 1..Len(s)}

-----------------------------------------------------------------------------
(* Static reference data: states.json and districts.json *)

\* "Bangalore Urban", abbreviated
BangaloreUrban == <<"B", "U">>

\* statesData.states
statesData == {"Karnataka"}

\* districtsData: state name -> ordered list of district names
districtsData == [s \in statesData |-> <<BangaloreUrban>>]

\* every district name of the index
AllDistricts == UNION {{districtsData[s][i] : i \in 1..Len(districtsData[s])} : s \in statesData}

\* (districtsData as Record<string, string[]>)[State] || []
districtsOf(State) ==
  IF State \in DOMAIN districtsData THEN districtsData[State] ELSE << >>

-----------------------------------------------------------------------------
(* userSchema *)

NameMax == 50
AddressMax == 500
PincodeLen == 6
IdDigits == 3

\* /^[A-Za-z.\s]+$/ with min(1), max(50)
nameOk(name) ==
  /\ Len(name) >= 1
  /\ Len(name) <= NameMax
  /\ Range(name) \subseteq (UpperLetters \cup LowerLetters \cup {"."} \cup Whitespace)

\* min(1), max(500)
addressOk(address) == Len(address) >= 1 /\ Len(address) <= AddressMax

\* min(6), max(6), /^[0-9]{6}$/
pincodeOk(pincode) ==
  /\ Len(pincode) >= PincodeLen
  /\ Len(pincode) <= PincodeLen
  /\ Range(pincode) \subseteq Digits

\* /^ZMR(00[1-9]|0[1-9][0-9]|[1-4][0-9]{2})$/
idOk(id) ==
  /\ Len(id) = 6
  /\ SubSeq(id, 1, 3) = <<"Z", "M", "R">>
  /\ \/ id[4] = "0" /\ id[5] = "0" /\ id[6] \in Digits \ {"0"}
     \/ id[4] = "0" /\ id[5] \in Digits \ {"0"} /\ id[6] \in Digits
     \/ id[4] \in {"1", "2", "3", "4"} /\ id[5] \in Digits /\ id[6] \in Digits

\* the zod object: state and district are only required to be non-empty
userSchema(data) ==
  /\ nameOk(data.name)
  /\ addressOk(data.address)
  /\ data.state # ""
  /\ data.district # << >>
  /\ pincodeOk(data.pincode)
  /\ idOk(data.id)

\* useForm defaultValues
defaultValues ==
  [name |-> << >>, id |-> <<"Z", "M", "R">>, address |-> << >>,
   state |-> "", district |-> << >>, pincode |-> << >>]

\* onChange of the id input: force the ZMR prefix, keep at most 3 digits
idOnChange(raw) ==
  LET value == IF startsWith(raw, <<"Z", "M", "R">>) THEN raw
               ELSE <<"Z", "M", "R">> \o raw
      numbers == stripNonDigits(sliceFrom(value, 3))
  IN  <<"Z", "M", "R">> \o sliceTo(numbers, IdDigits)

-----------------------------------------------------------------------------
(* District reconciliation of the postal lookup *)

\* the predicate handed to districts.find
matchPredicate(d, District) ==
  \/ toLowerCase(d) = toLowerCase(District)
  \/ includes(toLowerCase(d), toLowerCase(District))
  \/ includes(toLowerCase(District), toLowerCase(d))

\* match || District, where match = districts.find(matchPredicate)
resolveDistrict(districts, District) ==
  LET hits == {i \in 1..Len(districts) : matchPredicate(districts[i], District)}
      first == CHOOSE i \in hits : \A j \in hits : i <= j
  IN  IF hits = {} THEN District
      ELSE IF districts[first] = << >> THEN District
      ELSE districts[first]

-----------------------------------------------------------------------------
(* Inputs the environment can supply *)

ValidName == <<"A", "l">>
ValidId == <<"Z", "M", "R", "2", "5", "0">>
ValidAddress == <<"M", "G", " ", "R", "d">>
ValidPincode == <<"5", "6", "0", "0", "3", "2">>

\* what the user can type into the name, address, id and pincode inputs
NameInputs == {ValidName}
AddressInputs == {ValidAddress}
IdInputs == {ValidId, <<"a", "2", "5", "0", "7">>}
PincodeInputs ==
  {<< >>, <<"5", "6", "0", "3", "2">>, ValidPincode, <<"5", "6", "0", "0", "3", "x">>}

\* PostOffice entries the postal API can report: a district of an indexed
\* state under a shorter name ("bangalore"), and a district of a state the
\* index does not hold
PostOffices ==
  {[State |-> "Karnataka", District |-> <<"b">>],
   [State |-> "Pondicherry", District |-> <<"x">>]}

\* the PostalApi[] bodies res.json() can yield: a "Success" with a post office,
\* a "Success" with an empty list, an "Error" status, an empty array
ApiData ==
  {<<[Status |-> "Success", PostOffice |-> <<po>>]>> : po \in PostOffices}
    \cup {<<[Status |-> "Success", PostOffice |-> << >>]>>,
          <<[Status |-> "Error", PostOffice |-> << >>]>>,
          << >>}

\* values of new Date().toISOString()
Timestamps == {"T1"}

\* a record an earlier session of the page stored
EarlierRecord ==
  [name |-> ValidName, employeeId |-> ValidId, address |-> ValidAddress,
   state |-> "Karnataka", district |-> BangaloreUrban, pincode |-> ValidPincode,
   timestamp |-> "T0"]

\* contents the storage key can hold before the page loads
InitialStorage ==
  {[kind |-> "null", items |-> << >>],
   [kind |-> "garbage", items |-> << >>],
   [kind |-> "object", items |-> << >>],
   [kind |-> "array", items |-> <<EarlierRecord>>]}

-----------------------------------------------------------------------------
VARIABLES
  selectedState,     \* useState selectedState
  selectedDistrict,  \* useState selectedDistrict
  showSuccess,       \* useState showSuccess
  submittedData,     \* useState submittedData: << >> is null, else <<data>>
  form,              \* the values react-hook-form holds
  localStorage,      \* the value under "employeeRegistrations"
  inflight,          \* bag of pincodes with a fetch outstanding
  districtTimers,    \* bag of pending 500 ms callbacks [State, District]
  resetTimers,       \* number of pending 200000 ms auto-reset callbacks
  uncaughtError,     \* an exception escaped onSubmit
  matchRun           \* one run of the district matcher on drawn inputs

vars ==
  <<selectedState, selectedDistrict, showSuccess, submittedData, form,
    localStorage, inflight, districtTimers, resetTimers, uncaughtError, matchRun>>

selection == <<selectedState, selectedDistrict, form.state, form.district>>

NoMatchRun == [districts |-> << >>, District |-> << >>, result |-> << >>, done |-> FALSE]

Init ==
  /\ selectedState = ""
  /\ selectedDistrict = << >>
  /\ showSuccess = FALSE
  /\ submittedData = << >>
  /\ form = defaultValues
  /\ localStorage \in InitialStorage
  /\ inflight = EmptyBag
  /\ districtTimers = EmptyBag
  /\ resetTimers = 0
  /\ uncaughtError = FALSE
  /\ matchRun = NoMatchRun

pending == BagCardinality(inflight) + BagCardinality(districtTimers)

\* the pincode effect: runs when the watched value changed, returns unless the
\* length is 6, otherwise issues the fetch
lookupIssued(old, new) == new # old /\ Len(new) = PincodeLen

pincodeEffect(old, new) ==
  IF lookupIssued(old, new) THEN inflight (+) SetToBag({new}) ELSE inflight

-----------------------------------------------------------------------------
(* Typing into the registered inputs *)

TypeName(v) ==
  /\ v # form.name
  /\ form' = [form EXCEPT !.name = v]
  /\ UNCHANGED <<selectedState, selectedDistrict, showSuccess, submittedData,
                 localStorage, inflight, districtTimers, resetTimers,
                 uncaughtError, matchRun>>

TypeAddress(v) ==
  /\ v # form.address
  /\ form' = [form EXCEPT !.address = v]
  /\ UNCHANGED <<selectedState, selectedDistrict, showSuccess, submittedData,
                 localStorage, inflight, districtTimers, resetTimers,
                 uncaughtError, matchRun>>

TypeId(raw) ==
  /\ idOnChange(raw) # form.id
  /\ form' = [form EXCEPT !.id = idOnChange(raw)]
  /\ UNCHANGED <<selectedState, selectedDistrict, showSuccess, submittedData,
                 localStorage, inflight, districtTimers, resetTimers,
                 uncaughtError, matchRun>>

TypePincode(v) ==
  /\ v # form.pincode
  /\ lookupIssued(form.pincode, v) => pending < MaxPending
  /\ form' = [form EXCEPT !.pincode = v]
  /\ inflight' = pincodeEffect(form.pincode, v)
  /\ UNCHANGED <<selectedState, selectedDistrict, showSuccess, submittedData,
                 localStorage, districtTimers, resetTimers, uncaughtError, matchRun>>

-----------------------------------------------------------------------------
(* The cascading selector *)

handleStateChange(value) ==
  /\ selectedState' = value
  /\ selectedDistrict' = << >>
  /\ form' = [form EXCEPT !.state = value, !.district = << >>]
  /\ UNCHANGED <<showSuccess, submittedData, localStorage, inflight,
                 districtTimers, resetTimers, uncaughtError, matchRun>>

\* the district Select is disabled without a state and offers only the
\* districts of the selected state
handleDistrictChange(value) ==
  /\ selectedState # ""
  /\ value \in Range(districtsOf(selectedState))
  /\ selectedDistrict' = value
  /\ form' = [form EXCEPT !.district = value]
  /\ UNCHANGED <<selectedState, showSuccess, submittedData, localStorage,
                 inflight, districtTimers, resetTimers, uncaughtError, matchRun>>

\* variant of handleClear that leaves out resetName()
handleClearKeepingForm ==
  /\ UNCHANGED <<form, inflight>>
  /\ selectedState' = ""
  /\ selectedDistrict' = << >>
  /\ showSuccess' = FALSE
  /\ submittedData' = << >>

\* resetName() puts every form value back to its default
handleClear ==
  /\ form' = defaultValues
  /\ inflight' = pincodeEffect(form.pincode, defaultValues.pincode)
  /\ selectedState' = ""
  /\ selectedDistrict' = << >>
  /\ showSuccess' = FALSE
  /\ submittedData' = << >>

handleEdit ==
  /\ IF submittedData # << >>
     THEN LET d == submittedData[1] IN
          /\ lookupIssued(form.pincode, d.pincode) => pending < MaxPending
          /\ form' = [name |-> d.name, id |-> d.id, address |-> d.address,
                      state |-> d.state, district |-> d.district,
                      pincode |-> d.pincode]
          /\ inflight' = pincodeEffect(form.pincode, d.pincode)
          /\ selectedState' = d.state
          /\ selectedDistrict' = d.district
     ELSE UNCHANGED <<form, inflight, selectedState, selectedDistrict>>
  /\ showSuccess' = FALSE
  /\ UNCHANGED submittedData

\* the Clear button of the form or of the success dialog
ClickClear ==
  /\ handleClear
  /\ UNCHANGED <<localStorage, districtTimers, resetTimers, uncaughtError, matchRun>>

\* the Edit button, rendered only while the success dialog shows
ClickEdit ==
  /\ showSuccess
  /\ handleEdit
  /\ UNCHANGED <<localStorage, districtTimers, resetTimers, uncaughtError, matchRun>>

\* a click on the dialog's backdrop
ClickBackdrop ==
  /\ showSuccess
  /\ showSuccess' = FALSE
  /\ UNCHANGED <<selectedState, selectedDistrict, submittedData, form,
                 localStorage, inflight, districtTimers, resetTimers,
                 uncaughtError, matchRun>>

-----------------------------------------------------------------------------
(* Submit *)

\* the record onSubmit builds from the validated form data
formData(data, ts) ==
  [name |-> data.name, employeeId |-> data.id, address |-> data.address,
   state |-> data.state, district |-> data.district, pincode |-> data.pincode,
   timestamp |-> ts]

\* existingData ? ... : ...   (null and "" are falsy)
truthy(existingData) == existingData.kind \notin {"null", "empty"}

\* JSON.parse throws a SyntaxError on text that is not JSON
parseThrows(existingData) == existingData.kind = "garbage"

\* registrations.push throws a TypeError when the parsed value is no array
pushThrows(existingData) == existingData.kind = "object"

\* JSON.parse of text that JSON.stringify wrote from an array
JSONparse(existingData) == existingData.items

JSONstringify(registrations) == [kind |-> "array", items |-> registrations]

\* variant of registrationsOf that starts from an empty array every time
registrationsIgnoringStore(existingData) == << >>

\* existingData ? JSON.parse(existingData) : []
registrationsOf(existingData) ==
  IF truthy(existingData) THEN JSONparse(existingData) ELSE << >>

\* how many of the stored records this session appended
appended(registrations) ==
  Cardinality({i \in 1..Len(registrations) : registrations[i] # EarlierRecord})

onSubmit(data, ts) ==
  IF truthy(localStorage) /\ (parseThrows(localStorage) \/ pushThrows(localStorage))
  THEN /\ uncaughtError' = TRUE
       /\ UNCHANGED <<localStorage, submittedData, showSuccess, resetTimers>>
  ELSE /\ appended(registrationsOf(localStorage)) < MaxStore
       /\ localStorage' =
            JSONstringify(Append(registrationsOf(localStorage), formData(data, ts)))
       /\ submittedData' = <<data>>
       /\ showSuccess' = TRUE
       /\ resetTimers' = resetTimers + 1
       /\ UNCHANGED uncaughtError

\* handleSubmit(onSubmit): the resolver validates, onSubmit runs only on success
HandleSubmit(ts) ==
  /\ IF userSchema(form)
     THEN onSubmit(form, ts)
     ELSE UNCHANGED <<localStorage, submittedData, showSuccess, resetTimers,
                      uncaughtError>>
  /\ UNCHANGED <<selectedState, selectedDistrict, form, inflight, districtTimers,
                 matchRun>>

\* the 200000 ms timer set by onSubmit
AutoReset ==
  /\ resetTimers > 0
  /\ resetTimers' = resetTimers - 1
  /\ handleClear
  /\ UNCHANGED <<localStorage, districtTimers, uncaughtError, matchRun>>

-----------------------------------------------------------------------------
(* Postal lookup *)

\* setSelectedState(State), setValue("state", State) and the 500 ms timer
applyPostOffice(po) ==
  /\ selectedState' = po.State
  /\ form' = [form EXCEPT !.state = po.State]
  /\ districtTimers' =
       districtTimers (+) SetToBag({[State |-> po.State, District |-> po.District]})

\* .then((data: PostalApi[]) => ...): reading Status of a missing response or
\* destructuring a missing PostOffice[0] throws before anything is assigned,
\* and .catch logs it
LookupThen(p, data) ==
  /\ BagIn(p, inflight)
  /\ inflight' = inflight (-) SetToBag({p})
  /\ IF data = << >>
     THEN UNCHANGED <<selectedState, form, districtTimers>>
     ELSE IF data[1].Status = "Success"
          THEN IF data[1].PostOffice = << >>
               THEN UNCHANGED <<selectedState, form, districtTimers>>
               ELSE applyPostOffice(data[1].PostOffice[1])
          ELSE UNCHANGED <<selectedState, form, districtTimers>>
  /\ UNCHANGED <<selectedDistrict, showSuccess, submittedData, localStorage,
                 resetTimers, uncaughtError, matchRun>>

\* variant of LookupCatch whose handler also empties the selection
LookupCatchClearing(p) ==
  /\ BagIn(p, inflight)
  /\ inflight' = inflight (-) SetToBag({p})
  /\ selectedState' = ""
  /\ selectedDistrict' = << >>
  /\ form' = [form EXCEPT !.state = "", !.district = << >>]
  /\ UNCHANGED <<showSuccess, submittedData, localStorage, districtTimers,
                 resetTimers, uncaughtError, matchRun>>

\* fetch or res.json() rejects: .catch logs the error
LookupCatch(p) ==
  /\ BagIn(p, inflight)
  /\ inflight' = inflight (-) SetToBag({p})
  /\ UNCHANGED <<selectedState, selectedDistrict, showSuccess, submittedData,
                 form, localStorage, districtTimers, resetTimers, uncaughtError,
                 matchRun>>

\* the 500 ms callback of a successful lookup
DistrictTimer(t) ==
  /\ BagIn(t, districtTimers)
  /\ districtTimers' = districtTimers (-) SetToBag({t})
  /\ selectedDistrict' = resolveDistrict(districtsOf(t.State), t.District)
  /\ form' = [form EXCEPT
                !.district = resolveDistrict(districtsOf(t.State), t.District)]
  /\ UNCHANGED <<selectedState, showSuccess, submittedData, localStorage,
                 inflight, resetTimers, uncaughtError, matchRun>>

-----------------------------------------------------------------------------
Next ==
  \/ \E v \in NameInputs : TypeName(v)
  \/ \E v \in AddressInputs : TypeAddress(v)
  \/ \E raw \in IdInputs : TypeId(raw)
  \/ \E v \in PincodeInputs : TypePincode(v)
  \/ \E value \in statesData : handleStateChange(value)
  \/ \E value \in AllDistricts : handleDistrictChange(value)
  \/ ClickClear
  \/ ClickEdit
  \/ ClickBackdrop
  \/ \E ts \in Timestamps : HandleSubmit(ts)
  \/ AutoReset
  \/ \E p \in PincodeInputs, data \in ApiData : LookupThen(p, data)
  \/ \E p \in PincodeInputs : LookupCatch(p)
  \/ \E t \in PostOffices : DistrictTimer(t)

Spec == Init /\ [][Next]_vars

-----------------------------------------------------------------------------
(* The district matcher on its own, over every small candidate list *)

MatchAlphabet == {"A", "a", "b"}

RECURSIVE SeqsUpTo(_, _)
SeqsUpTo(S, n) ==
  IF n = 0 THEN {<< >>}
  ELSE LET shorter == SeqsUpTo(S, n - 1)
       IN  shorter \cup {Append(q, x) : q \in shorter, x \in S}

MatchNames == SeqsUpTo(MatchAlphabet, MaxNameLen) \ {<< >>}

\* candidate lists hold distinct, non-empty names
CandidateLists ==
  {ds \in SeqsUpTo(MatchNames, MaxCandidates) :
     \A i, j \in 1..Len(ds) : i # j => ds[i] # ds[j]}

InitMatch ==
  /\ selectedState = ""
  /\ selectedDistrict = << >>
  /\ showSuccess = FALSE
  /\ submittedData = << >>
  /\ form = defaultValues
  /\ localStorage = [kind |-> "null", items |-> << >>]
  /\ inflight = EmptyBag
  /\ districtTimers = EmptyBag
  /\ resetTimers = 0
  /\ uncaughtError = FALSE
  /\ matchRun \in {[districts |-> ds, District |-> r, result |-> << >>, done |-> FALSE] :
                     ds \in CandidateLists, r \in MatchNames}

RunMatch ==
  /\ ~matchRun.done
  /\ matchRun' = [matchRun EXCEPT
                    !.result = resolveDistrict(matchRun.districts, matchRun.District),
                    !.done = TRUE]
  /\ UNCHANGED <<selectedState, selectedDistrict, showSuccess, submittedData, form,
                 localStorage, inflight, districtTimers, resetTimers, uncaughtError>>

NextMatch == RunMatch

SpecMatch == InitMatch /\ [][NextMatch]_vars

-----------------------------------------------------------------------------
(* Properties *)

\* the field constraints of a RegistrationRecord
recordOk(r) ==
  /\ nameOk(r.name)
  /\ idOk(r.employeeId)
  /\ addressOk(r.address)
  /\ r.state \in statesData
  /\ r.district \in Range(districtsOf(r.state))
  /\ pincodeOk(r.pincode)

\* C1: every record in the store satisfies all field constraints; its state is
\* an enumerated state and its district belongs to that state's districts.
C1_StoredRecordsValid ==
  \A i \in 1..Len(localStorage.items) : recordOk(localStorage.items[i])

\* C2: the store is append-only.  A step in which a submit completes (it arms
\* one more auto-reset timer) leaves an array holding the prior records, in
\* order, followed by exactly one record built from the form; every other
\* step leaves the stored value untouched.
C2_AppendOnly ==
  [][IF resetTimers' = resetTimers + 1
     THEN /\ userSchema(form)
          /\ localStorage'.kind = "array"
          /\ Len(localStorage'.items) = Len(localStorage.items) + 1
          /\ SubSeq(localStorage'.items, 1, Len(localStorage.items)) = localStorage.items
          /\ \E ts \in Timestamps :
               localStorage'.items[Len(localStorage'.items)] = formData(form, ts)
     ELSE localStorage' = localStorage]_vars

\* C2 witness: a submit has appended a record behind the earlier one.
C2_Witness ==
  /\ Len(localStorage.items) = 2
  /\ localStorage.items[1] = EarlierRecord
  /\ showSuccess

\* C3: whenever the selected state is empty the selected district is empty.
C3_NoOrphanDistrict ==
  /\ selectedState = "" => selectedDistrict = << >>
  /\ form.state = "" => form.district = << >>

\* C4: a lookup that resolves when its originating pincode is no longer the
\* current pincode input is discarded: the state and district selections stay
\* as they were and no delayed district assignment is scheduled.
C4_StaleLookupDiscarded ==
  [][\A p \in BagToSet(inflight), data \in ApiData :
       (LookupThen(p, data) /\ p # form.pincode)
         => (UNCHANGED selection /\ districtTimers' = districtTimers)]_vars

\* C5: with the storage key missing or not parseable as a collection, a valid
\* submit raises no error and leaves the store holding exactly the new record.
C5_CorruptStoreIsEmpty ==
  [][\A ts \in Timestamps :
       (HandleSubmit(ts) /\ userSchema(form)
          /\ localStorage.kind \in {"null", "garbage", "object"})
         => /\ ~uncaughtError'
            /\ localStorage' = JSONstringify(<<formData(form, ts)>>)]_vars

\* C6: a lookup request is issued only for a pincode of exactly 6 digits.
C6_LookupOnlyForSixDigits ==
  [][\A p \in BagToSet(inflight') :
       CopiesIn(p, inflight') > CopiesIn(p, inflight) => pincodeOk(p)]_vars

\* C7: when some candidate equals the reported district case-insensitively,
\* the matcher returns such a candidate, whatever precedes it in the list.
C7_ExactMatchWins ==
  (/\ matchRun.done
   /\ \E i \in 1..Len(matchRun.districts) :
        toLowerCase(matchRun.districts[i]) = toLowerCase(matchRun.District))
    => /\ matchRun.result \in Range(matchRun.districts)
       /\ toLowerCase(matchRun.result) = toLowerCase(matchRun.District)

\* C8: an update through the state selector or from a lookup result that
\* changes the state selection leaves the district selection empty.
C8_StateChangeResetsDistrict ==
  [][((\/ \E value \in statesData : handleStateChange(value)
       \/ \E p \in BagToSet(inflight), data \in ApiData : LookupThen(p, data))
      /\ selectedState' # selectedState)
       => (selectedDistrict' = << >> /\ form'.district = << >>)]_vars

\* the responses that carry no resolution
FailedData ==
  {data \in ApiData :
     \/ data = << >>
     \/ data[1].Status # "Success"
     \/ data[1].PostOffice = << >>}

\* C9: a failed lookup (rejected fetch, a status other than "Success", a
\* "Success" without a post office) keeps the state and district selections,
\* schedules no delayed district assignment, and changes nothing else but to
\* take the request out of flight, so whatever could be done before it can be
\* done after it.
C9_FailedLookupKeepsSelections ==
  [][\A p \in BagToSet(inflight) :
       ((\E data \in FailedData : LookupThen(p, data)) \/ LookupCatch(p))
         => /\ UNCHANGED selection
            /\ districtTimers' = districtTimers
            /\ UNCHANGED <<showSuccess, submittedData, form, localStorage,
                           resetTimers, uncaughtError>>
            /\ BagCardinality(inflight') < BagCardinality(inflight)]_vars

\* C9 witness: the pincode holds 6 digits, so a lookup was issued, and it is
\* over with no state selected and no district assignment pending: it failed.
C9_Witness ==
  /\ form.pincode = ValidPincode
  /\ inflight = EmptyBag
  /\ districtTimers = EmptyBag
  /\ selectedState = ""
  /\ selectedDistrict = << >>

\* C10: the selector state and the form values never diverge.
C10_SelectionCopiesAgree ==
  /\ selectedState = form.state
  /\ selectedDistrict = form.district

\* C10 witness: a lookup's raw district reached both copies, a submit stored
\* it, and the success dialog is closed again.
C10_Witness ==
  /\ selectedDistrict = <<"x">>
  /\ form.district = <<"x">>
  /\ selectedState = "Pondicherry"
  /\ submittedData # << >>
  /\ ~showSuccess

====
